---- MODULE Spec2Model ----
(***************************************************************************)
(* Account orchestration of the Tessa API: the UserOrchestrator workflows  *)
(* (createEmployeeWithFirebase, createOwnerWithFirebase, deleteUser,       *)
(* deleteOwner) over the two mongoose collections (users, owners) and the  *)
(* Firebase Authentication directory.  Every awaited call of a workflow is *)
(* one atomic step; workflows of different requests interleave freely.     *)
(***************************************************************************)
EXTENDS Integers, FiniteSets, Sequences, TLC

\* ---------------------------------------------------------------- bounds
NumProcs == 2
MaxRequests == 2

Procs == 1..NumProcs
\* the ids of the two accounts of Init and of the accounts requests create
Ids == 1..(2 + MaxRequests)
Emails == {"a@example.com", "b@example.com"}
Names == {"John Doe"}
Passwords == {"SecurePass123!"}
\* the roles create requests carry: one the validation accepts (not the
\* schema's default, not the role of the user of Init) and one it refuses
CreateRoles == {"MANAGER", "OWNER"}
\* the roles role-update requests carry
RequestRoles == {"MANAGER", "EMPLOYEE", "OWNER"}
\* the ownerId values requests carry (validated as ObjectIds only)
OwnerRefs == {1}

\* ------------------------------------------------------- program constants
UserRole_withOwner == {"MANAGER", "EMPLOYEE", "OWNER"}
UserRole == {"MANAGER", "EMPLOYEE"}
Role == [OWNER |-> "OWNER"]
CONFLICT == 409
NOT_FOUND == 404
INTERNAL_SERVER_ERROR == 500
CREATED == 201
NO_CONTENT == 204

Null == [null |-> TRUE]

ApiError(statusCode, message) == [statusCode |-> statusCode, message |-> message]

ConflictError == ApiError(CONFLICT, "User with this email already exists")
NotFoundError == ApiError(NOT_FOUND, "User not found")
FailedToCreate == ApiError(INTERNAL_SERVER_ERROR, "Failed to create user")
FailedToDelete == ApiError(INTERNAL_SERVER_ERROR, "Failed to delete user")
DataInconsistency ==
    ApiError(INTERNAL_SERVER_ERROR,
             "Failed to delete user and rollback failed. Data inconsistency detected.")
\* an error thrown by the mongoose driver itself (connection fault, E11000
\* duplicate key); it is no ApiError
StoreError == [statusCode |-> INTERNAL_SERVER_ERROR, message |-> "MongoServerError"]

\* ------------------------------------------------------------------ state
VARIABLES
    db,         \* db.User, db.Owner: the documents of the two collections
    idp,        \* identities held by Firebase Authentication
    clock,      \* the store's time, read for createdAt (every write is later
                \* than the one before it)
    nextId,     \* the next ObjectId that new Types.ObjectId() yields
    wf,         \* per request: the workflow it runs, its position and locals
    requests,   \* how many requests the API has accepted so far
    compFault   \* history: a store fault hit some compensating action

vars == <<db, idp, clock, nextId, wf, requests, compFault>>

Kinds == {"User", "Owner"}
CreateOps == {"createEmployeeWithFirebase", "createOwnerWithFirebase"}
DeleteOps == {"deleteUser", "deleteOwner"}

\* the service (and so the collection) a workflow works on
KindOf_ownerDeleteInUsers(op) ==
    IF op \in {"createEmployeeWithFirebase", "deleteUser", "deleteOwner"}
    THEN "User" ELSE "Owner"
KindOf(op) ==
    IF op \in {"createEmployeeWithFirebase", "deleteUser"} THEN "User" ELSE "Owner"

\* the service whose delete the catch block of a create workflow calls:
\* both createEmployeeWithFirebase and createOwnerWithFirebase call
\* UserService.deleteUser(userId)
RollbackKind(op) == "User"

IdleWf ==
    [op |-> "none", pc |-> "idle", userId |-> 0, data |-> Null,
     user |-> Null, createdUser |-> Null, deletedUser |-> Null,
     result |-> Null, error |-> Null,
     calls |-> <<>>, dup |-> FALSE, missing |-> FALSE, removed |-> Null,
     rollbackFault |-> FALSE, heldIdentity |-> FALSE, status |-> 0]

\* the status a controller has sent when the workflow it called is still
\* running: OwnerController.delete calls deleteOwner without await and sends
\* 204 at once; every other controller awaits its workflow (0: nothing sent)
SentAtCall(op) == IF op = "deleteOwner" THEN NO_CONTENT ELSE 0

\* the status an awaiting controller sends once its workflow has returned
SentOnReturn(op) == IF op \in CreateOps THEN CREATED ELSE NO_CONTENT

\* the end of a workflow: "return" (error Null) or "throw"; the locals of the
\* call are gone, what stays is what the caller and the history know of it.
\* status is what the controller itself has sent: a thrown error reaches an
\* awaiting controller's caller (the error handler), the controller sends
\* nothing
Done(w, error, result) ==
    [IdleWf EXCEPT !.op = w.op, !.pc = "done", !.userId = w.userId,
                   !.error = error, !.result = result, !.calls = w.calls,
                   !.dup = w.dup, !.missing = w.missing,
                   !.rollbackFault = w.rollbackFault,
                   !.status = IF w.status # 0 THEN w.status
                              ELSE IF error = Null THEN SentOnReturn(w.op)
                              ELSE 0]

\* ---------------------------------------------------- mongoose operations
\* Model.findOne({ email }): the documents with that email (at most one)
findOne_none(coll, email) == {}
findOne(coll, email) == {d \in coll : d.email = email}

\* Model.findById(id): the documents with that _id (at most one)
findById(coll, id) == {d \in coll : d._id = id}

\* .lean(): the plain object of the document found, or null
lean(found) == IF found = {} THEN Null ELSE CHOOSE d \in found : TRUE

\* UserService.getUserById / OwnerService.getOwnerById: NotFound when
\* findById(id).lean() is null, the object otherwise
getById_unchecked(coll, id) == [error |-> Null, user |-> lean(findById(coll, id))]
getById(coll, id) ==
    LET user == lean(findById(coll, id))
    IN  IF user = Null
        THEN [error |-> NotFoundError, user |-> Null]
        ELSE [error |-> Null, user |-> user]

\* Model.findByIdAndDelete: the collection without the document of that id
findByIdAndDelete_keep(coll, id) == coll
findByIdAndDelete_all(coll, id) == {}
findByIdAndDelete_others(coll, id) == {d \in coll : d._id = id}
findByIdAndDelete(coll, id) == {d \in coll : d._id # id}

\* the unique indexes of a collection (_id, and email: unique: true)
DuplicateKey_idOnly(coll, doc) == \E d \in coll : d._id = doc._id
DuplicateKey(coll, doc) ==
    \E d \in coll : d._id = doc._id \/ d.email = doc.email

\* the check that opens createUser / createOwner: what it throws (Conflict)
\* when findOne({ email }) finds a document of the collection, or nothing
ExistingCheck(coll, email) ==
    IF findOne(coll, email) # {} THEN ConflictError ELSE Null

\* body('role').isIn(Object.values(UserRole)) of UserValidation.createUser
\* and updateUserRole: a request with another role is answered 400 and its
\* handler is not called
ValidRole(role) == role \in UserRole

\* the enum of the role path of UserSchema (OwnerSchema has none)
SchemaAccepts(kind, doc) == kind = "User" => doc.role \in UserRole

\* Model.create(doc): the stored document; the schema keeps its own paths
\* only, fills in the role default and, with timestamps: true, createdAt
\* and updatedAt
NewDocument(kind, doc, now) ==
    IF kind = "User"
    THEN [_id |-> doc._id, ownerId |-> doc.ownerId, name |-> doc.name,
          email |-> doc.email, role |-> doc.role,
          createdAt |-> now, updatedAt |-> now]
    ELSE [_id |-> doc._id, name |-> doc.name, email |-> doc.email,
          role |-> Role.OWNER, createdAt |-> now, updatedAt |-> now]

\* the object the orchestrator hands to UserService.createUser /
\* OwnerService.createOwner
ServiceInput_reparent(kind, id, src) ==
    IF kind = "User"
    THEN [_id |-> id, ownerId |-> id, name |-> src.name,
          email |-> src.email, role |-> src.role]
    ELSE [_id |-> id, name |-> src.name, email |-> src.email]
ServiceInput_whole(kind, id, src) ==
    [f \in DOMAIN src \cup {"_id"} |-> IF f = "_id" THEN id ELSE src[f]]
ServiceInput(kind, id, src) ==
    IF kind = "User"
    THEN [_id |-> id, ownerId |-> src.ownerId, name |-> src.name,
          email |-> src.email, role |-> src.role]
    ELSE [_id |-> id, name |-> src.name, email |-> src.email]

\* ------------------------------------------------------------ Init
\* the accounts that earlier, successful create workflows may have left:
\* an owner (created first, at time 0) and one of its employees (time 1),
\* each with its identity
SeedOwner ==
    NewDocument("Owner",
        ServiceInput("Owner", 1, [name |-> "John Doe", email |-> "b@example.com"]), 0)
SeedUser ==
    NewDocument("User",
        ServiceInput("User", 2, [ownerId |-> 1, name |-> "John Doe",
                                 email |-> "a@example.com", role |-> "EMPLOYEE"]), 1)
IdentityOf(d) ==
    [uid |-> ToString(d._id), email |-> d.email,
     password |-> "SecurePass123!", displayName |-> d.name]

\* no request is in progress; each of the two accounts is there or not
Init ==
    /\ \E us \in SUBSET {SeedUser}, os \in SUBSET {SeedOwner} :
          /\ db = [User |-> us, Owner |-> os]
          /\ idp = {IdentityOf(d) : d \in us} \cup {IdentityOf(d) : d \in os}
    /\ clock = 2
    /\ nextId = 3
    /\ wf = [p \in Procs |-> IdleWf]
    /\ requests = 0
    /\ compFault = FALSE

\* ------------------------------------------------- identity provider
\* FirebaseService.createUser({uid, email, password, displayName})
Identity_uidFromEmail(w) ==
    [uid |-> w.data.email, email |-> w.data.email,
     password |-> w.data.password, displayName |-> w.data.name]
Identity(w) ==
    [uid |-> ToString(w.userId), email |-> w.data.email,
     password |-> w.data.password, displayName |-> w.data.name]

\* the provider refuses a uid or an email it already holds
AuthAccepts(directory, identity) ==
    \A i \in directory : i.uid # identity.uid /\ i.email # identity.email

\* a request is served in the first slot with no workflow in progress (the
\* slots are interchangeable); the slot keeps the outcome of the workflow it
\* ran last
Free(p) ==
    /\ wf[p].pc \in {"idle", "done"}
    /\ \A q \in Procs : q < p => wf[q].pc \notin {"idle", "done"}

\* ------------------------------------------------- create workflows
\* the catch block of createEmployeeWithFirebase / createOwnerWithFirebase:
\* whatever was thrown, "if (createdUser) await deleteUser(userId)" and then
\* throw the generic error
CreateCatch_retry(w) ==
    IF w.createdUser # Null
    THEN [w EXCEPT !.pc = "firebase"]
    ELSE Done(w, FailedToCreate, Null)
CreateCatch_proceed(w) == [w EXCEPT !.pc = "firebase"]
CreateCatch_hang(w) ==
    IF w.createdUser # Null
    THEN [w EXCEPT !.pc = "hung"]
    ELSE Done(w, FailedToCreate, Null)
CreateCatch(w) ==
    IF w.createdUser # Null
    THEN [w EXCEPT !.pc = "rollback"]
    ELSE Done(w, FailedToCreate, Null)

\* new Types.ObjectId(), then the service's create up to its first awaited
\* call: Model.findOne({ email }); an existing document throws Conflict
\* inside the try block
StartCreate(p, op, data, fault) ==
    /\ Free(p)
    /\ KindOf(op) = "User" => ValidRole(data.role)
    /\ requests < MaxRequests
    /\ requests' = requests + 1
    /\ LET kind == KindOf(op)
           thrown == ExistingCheck(db[kind], data.email)
           w0 == [IdleWf EXCEPT !.op = op, !.userId = nextId, !.data = data,
                                !.calls = <<"findOne">>,
                                !.dup = \E d \in db[kind] : d.email = data.email]
       IN  wf' = [wf EXCEPT ![p] =
                     IF fault \/ thrown # Null
                     THEN CreateCatch(w0)
                     ELSE [w0 EXCEPT !.pc = "create"]]
    /\ nextId' = nextId + 1
    /\ UNCHANGED <<db, idp, clock, compFault>>

\* userCreated.toObject(): the plain object with the document's fields
toObject(doc) == [f \in DOMAIN doc |-> doc[f]]

\* the service's Model.create(doc); on success createdUser is assigned
CreateInsert(p, fault) ==
    /\ wf[p].pc = "create"
    /\ LET w == wf[p]
           kind == KindOf(w.op)
           doc == NewDocument(kind, ServiceInput(kind, w.userId, w.data), clock)
           w1 == [w EXCEPT !.calls = Append(@, "create")]
       IN  IF fault \/ ~SchemaAccepts(kind, doc) \/ DuplicateKey(db[kind], doc)
           THEN /\ wf' = [wf EXCEPT ![p] = CreateCatch(w1)]
                /\ db' = db
           ELSE /\ db' = [db EXCEPT ![kind] = @ \cup {doc}]
                /\ wf' = [wf EXCEPT ![p] =
                            [w1 EXCEPT !.createdUser = toObject(doc),
                                       !.pc = "firebase"]]
    /\ clock' = IF db' = db THEN clock ELSE clock + 1
    /\ UNCHANGED <<requests, idp, nextId, compFault>>

\* await FirebaseService.createUser(...); return createdUser
FirebaseCreateUser(p, ok) ==
    /\ wf[p].pc = "firebase"
    /\ wf[p].op \in CreateOps
    /\ LET w == wf[p]
           w1 == [w EXCEPT !.calls = Append(@, "auth.createUser")]
       IN  IF ok /\ AuthAccepts(idp, Identity(w))
           THEN /\ idp' = idp \cup {Identity(w)}
                /\ wf' = [wf EXCEPT ![p] =
                            Done(w1, Null, w.createdUser)]
           ELSE /\ idp' = idp
                /\ wf' = [wf EXCEPT ![p] = CreateCatch(w1)]
    /\ UNCHANGED <<requests, db, clock, nextId, compFault>>

\* the compensation in the catch block: await UserService.deleteUser(userId)
\* (Model.findByIdAndDelete, NotFound when it finds nothing); what it throws
\* leaves the catch block as it is, otherwise the generic error is thrown
CreateRollback(p, fault) ==
    /\ wf[p].pc = "rollback"
    /\ LET w == wf[p]
           kind == RollbackKind(w.op)
           found == findById(db[kind], w.userId)
           w1 == [w EXCEPT !.calls = Append(@, "findByIdAndDelete")]
       IN  IF fault
           THEN /\ db' = db
                /\ wf' = [wf EXCEPT ![p] =
                            Done([w1 EXCEPT !.rollbackFault = TRUE], StoreError, Null)]
                /\ compFault' = TRUE
           ELSE /\ compFault' = compFault
                /\ IF found = {}
                   THEN /\ db' = db
                        /\ wf' = [wf EXCEPT ![p] = Done(w1, NotFoundError, Null)]
                   ELSE /\ db' = [db EXCEPT ![kind] = findByIdAndDelete(@, w.userId)]
                        /\ wf' = [wf EXCEPT ![p] = Done(w1, FailedToCreate, Null)]
    /\ UNCHANGED <<requests, idp, clock, nextId>>

\* ------------------------------------------------- delete workflows
\* the catch block of deleteUser / deleteOwner: "if (deletedUser)" recreate,
\* then throw the ordinary error
DeleteCatch_proceed(w) == [w EXCEPT !.pc = "firebase"]
DeleteCatch_noCompensation(w) == Done(w, FailedToDelete, Null)
DeleteCatch_swallow(w) ==
    IF w.deletedUser # Null
    THEN [w EXCEPT !.pc = "recreate"]
    ELSE Done(w, Null, Null)
DeleteCatch_fetched(w) ==
    IF w.user # Null
    THEN [w EXCEPT !.deletedUser = w.user, !.pc = "recreate"]
    ELSE Done(w, FailedToDelete, Null)
DeleteCatch(w) ==
    IF w.deletedUser # Null
    THEN [w EXCEPT !.pc = "recreate"]
    ELSE Done(w, FailedToDelete, Null)

\* the controller calls the workflow (OwnerController.delete sends its 204
\* in the same turn, the call not being awaited), and the workflow's first
\* awaited call, getUserById / getOwnerById: Model.findById(id).lean(),
\* NotFound thrown inside the try block when there is no document
StartDelete(p, op, id, fault) ==
    /\ Free(p)
    /\ requests < MaxRequests
    /\ requests' = requests + 1
    /\ LET kind == KindOf(op)
           r == getById(db[kind], id)
           w0 == [IdleWf EXCEPT !.op = op, !.userId = id,
                                !.status = SentAtCall(op),
                                !.calls = <<"findById">>,
                                !.missing = \A d \in db[kind] : d._id # id]
       IN  wf' = [wf EXCEPT ![p] =
                     IF fault \/ r.error # Null
                     THEN DeleteCatch(w0)
                     ELSE [w0 EXCEPT !.user = r.user, !.pc = "delete"]]
    /\ UNCHANGED <<db, idp, clock, nextId, compFault>>

\* await Service.delete(id): Model.findByIdAndDelete, NotFound when it finds
\* nothing; then deletedUser = user
DeleteLocal(p, fault) ==
    /\ wf[p].pc = "delete"
    /\ LET w == wf[p]
           kind == KindOf(w.op)
           found == findById(db[kind], w.userId)
           w1 == [w EXCEPT !.calls = Append(@, "findByIdAndDelete")]
       IN  IF fault \/ found = {}
           THEN /\ db' = db
                /\ wf' = [wf EXCEPT ![p] = DeleteCatch(w1)]
           ELSE /\ db' = [db EXCEPT ![kind] = findByIdAndDelete(@, w.userId)]
                /\ wf' = [wf EXCEPT ![p] =
                            [w1 EXCEPT !.deletedUser = w.user,
                                       !.removed = lean(found),
                                       !.pc = "firebase"]]
    /\ UNCHANGED <<requests, idp, clock, nextId, compFault>>

\* await FirebaseService.deleteUser(id.toString()); auth.deleteUser rejects
\* when the directory holds no identity of that uid. heldIdentity records,
\* for a failed call, whether the directory held one
FirebaseDeleteUser(p, ok) ==
    /\ wf[p].pc = "firebase"
    /\ wf[p].op \in DeleteOps
    /\ LET w == wf[p]
           held == {i \in idp : i.uid = ToString(w.userId)}
           w1 == [w EXCEPT !.calls = Append(@, "auth.deleteUser")]
       IN  IF ok /\ held # {}
           THEN /\ idp' = idp \ held
                /\ wf' = [wf EXCEPT ![p] = Done(w1, Null, Null)]
           ELSE /\ idp' = idp
                /\ wf' = [wf EXCEPT ![p] =
                            DeleteCatch([w1 EXCEPT !.heldIdentity = held # {}])]
    /\ UNCHANGED <<requests, db, clock, nextId, compFault>>

\* the compensation, first awaited call of the service's create:
\* Model.findOne({ email: deletedUser.email }); Conflict is a rollbackError
RecreateFindOne(p, fault) ==
    /\ wf[p].pc = "recreate"
    /\ LET w == wf[p]
           kind == KindOf(w.op)
           thrown == ExistingCheck(db[kind], w.deletedUser.email)
           w1 == [w EXCEPT !.calls = Append(@, "findOne")]
       IN  wf' = [wf EXCEPT ![p] =
                     IF fault \/ thrown # Null
                     THEN Done([w1 EXCEPT !.rollbackFault = fault],
                               DataInconsistency, Null)
                     ELSE [w1 EXCEPT !.pc = "recreateCreate"]]
    /\ compFault' = (compFault \/ fault)
    /\ UNCHANGED <<requests, db, idp, clock, nextId>>

\* the compensation, Model.create of { _id, ownerId, name, email, role }
\* (owner: { _id, name, email }) taken from deletedUser
RecreateInsert(p, fault) ==
    /\ wf[p].pc = "recreateCreate"
    /\ LET w == wf[p]
           kind == KindOf(w.op)
           doc == NewDocument(kind,
                      ServiceInput(kind, w.deletedUser._id, w.deletedUser), clock)
           w1 == [w EXCEPT !.calls = Append(@, "create")]
       IN  IF fault \/ ~SchemaAccepts(kind, doc) \/ DuplicateKey(db[kind], doc)
           THEN /\ db' = db
                /\ wf' = [wf EXCEPT ![p] =
                            Done([w1 EXCEPT !.rollbackFault = fault],
                                 DataInconsistency, Null)]
           ELSE /\ db' = [db EXCEPT ![kind] = @ \cup {doc}]
                /\ wf' = [wf EXCEPT ![p] = Done(w1, FailedToDelete, Null)]
    /\ compFault' = (compFault \/ fault)
    /\ clock' = IF db' = db THEN clock ELSE clock + 1
    /\ UNCHANGED <<requests, idp, nextId>>

\* ------------------------------------------------- role update
\* UserService.getAllUsers: User.find({ ownerId }).lean(), a query
getAllUsers_all(coll, ownerId) == coll
getAllUsers(coll, ownerId) == {d \in coll : d.ownerId = ownerId}

\* Model.findByIdAndUpdate(id, { role }, { new: true }): the document of
\* that id with the role set and, with timestamps: true, updatedAt stamped;
\* the other documents as they are
findByIdAndUpdate_toggle(coll, id, role, now) ==
    {IF d._id = id
     THEN [d EXCEPT !.role = IF @ = role THEN CHOOSE x \in UserRole : x # role ELSE role,
                    !.updatedAt = now]
     ELSE d : d \in coll}
findByIdAndUpdate_restamp(coll, id, role, now) ==
    {IF d._id = id
     THEN [d EXCEPT !.role = role, !.updatedAt = now, !.createdAt = now]
     ELSE d : d \in coll}
findByIdAndUpdate(coll, id, role, now) ==
    {IF d._id = id THEN [d EXCEPT !.role = role, !.updatedAt = now] ELSE d : d \in coll}

\* UserService.updateUserRole: the updated document (new: true, lean), or
\* NotFound when findByIdAndUpdate finds nothing; coll: the collection after
UserService_updateUserRole_old(coll, id, role, now) ==
    LET user == lean(findById(coll, id))
    IN  [error |-> IF user = Null THEN NotFoundError ELSE Null,
         user |-> user, coll |-> findByIdAndUpdate(coll, id, role, now)]
UserService_updateUserRole(coll, id, role, now) ==
    LET after == findByIdAndUpdate(coll, id, role, now)
        user == lean(findById(after, id))
    IN  IF user = Null
        THEN [error |-> NotFoundError, user |-> Null, coll |-> after]
        ELSE [error |-> Null, user |-> user, coll |-> after]

\* PATCH /user/:id/role: UserController.updateRole calls the service
updateUserRole(id, role) ==
    /\ ValidRole(role)
    /\ requests < MaxRequests
    /\ requests' = requests + 1
    /\ db' = [db EXCEPT !.User = UserService_updateUserRole(@, id, role, clock).coll]
    /\ clock' = IF db' = db THEN clock ELSE clock + 1
    /\ UNCHANGED <<idp, nextId, wf, compFault>>

\* GET /user: UserController.getAll answers 200 with the users of the
\* caller (req.userId as ownerId); it writes nothing
getAll(ownerId) ==
    /\ getAllUsers(db.User, ownerId) \subseteq db.User
    /\ UNCHANGED vars

\* ------------------------------------------------- inputs
UserData ==
    [name : Names, email : Emails, role : CreateRoles, password : Passwords,
     ownerId : OwnerRefs]
OwnerData == [name : Names, email : Emails, password : Passwords]

\* a request names an id generated so far or one no account ever had (the
\* next one); fault: the external call of the step fails
Next ==
    \/ \E p \in Procs, fault \in BOOLEAN :
          \/ \E data \in UserData :
                StartCreate(p, "createEmployeeWithFirebase", data, fault)
          \/ \E data \in OwnerData :
                StartCreate(p, "createOwnerWithFirebase", data, fault)
          \/ CreateInsert(p, fault)
          \/ FirebaseCreateUser(p, ~fault)
          \/ CreateRollback(p, fault)
          \/ \E op \in DeleteOps, id \in 1..nextId : StartDelete(p, op, id, fault)
          \/ DeleteLocal(p, fault)
          \/ FirebaseDeleteUser(p, ~fault)
          \/ RecreateFindOne(p, fault)
          \/ RecreateInsert(p, fault)
    \/ \E id \in 1..nextId, role \in RequestRoles : updateUserRole(id, role)
    \/ \E ownerId \in OwnerRefs : getAll(ownerId)

Spec == Init /\ [][Next]_vars

\* the next awaited call of the workflow of request p returns, with
\* success or with failure
Continue(p) ==
    \E fault \in BOOLEAN :
        \/ CreateInsert(p, fault)
        \/ FirebaseCreateUser(p, ~fault)
        \/ CreateRollback(p, fault)
        \/ DeleteLocal(p, fault)
        \/ FirebaseDeleteUser(p, ~fault)
        \/ RecreateFindOne(p, fault)
        \/ RecreateInsert(p, fault)

\* every call to the store and to the identity provider returns in the
\* end, and the event loop then resumes the workflow that awaits it
LiveSpec == Spec /\ \A p \in Procs : WF_vars(Continue(p))

\* =================================================== properties
Range(seq) == {seq[i] : i \in DOMAIN seq}

\* request p's workflow ends in this step
EndsNow(p) == wf'[p] # wf[p] /\ wf'[p].pc = "done"

\* a finished create workflow whose local create succeeded and whose
\* identity creation then failed
IdentityCreateFailed(w) ==
    /\ w.pc = "done"
    /\ w.op \in CreateOps
    /\ "auth.createUser" \in Range(w.calls)
    /\ w.result = Null

\* C1: when createEmployeeWithFirebase ends after the local create
\* succeeded, the identity creation failed and the compensating
\* UserService.deleteUser returned normally (the workflow then throws the
\* generic error), no User document with the generated id is in the store.
C1_UserCreateRollback ==
    [][\A p \in Procs :
          ( /\ EndsNow(p)
            /\ wf'[p].op = "createEmployeeWithFirebase"
            /\ IdentityCreateFailed(wf'[p])
            /\ wf'[p].error = FailedToCreate )
          => findById(db'.User, wf'[p].userId) = {}]_vars

C1_Witness ==
    \E p \in Procs :
        /\ wf[p].op = "createEmployeeWithFirebase"
        /\ IdentityCreateFailed(wf[p])
        /\ wf[p].error = FailedToCreate
        /\ wf[p].calls = <<"findOne", "create", "auth.createUser", "findByIdAndDelete">>

\* C2: when createOwnerWithFirebase ends after the local create succeeded
\* and the identity creation failed, and no store fault hit the
\* compensation, no Owner document with the generated id is in the store.
C2_OwnerCreateRollback ==
    [][\A p \in Procs :
          ( /\ EndsNow(p)
            /\ wf'[p].op = "createOwnerWithFirebase"
            /\ IdentityCreateFailed(wf'[p])
            /\ ~wf'[p].rollbackFault )
          => findById(db'.Owner, wf'[p].userId) = {}]_vars

\* C3: in every state with no workflow in progress and no store fault ever
\* injected into a compensating action, an Owner or User document with an
\* id exists exactly when an identity with that uid exists.
Quiescent == \A p \in Procs : wf[p].pc \in {"idle", "done"}

HasRecord(id) ==
    (\E d \in db.User : d._id = id) \/ (\E d \in db.Owner : d._id = id)

HasIdentity(id) == \E i \in idp : i.uid = ToString(id)

C3_PairingAtQuiescence ==
    (Quiescent /\ ~compFault) => \A id \in Ids : HasRecord(id) <=> HasIdentity(id)

\* C4: when a delete workflow ends after the local delete succeeded, the
\* identity deletion failed and the compensating recreate succeeded, the
\* store holds the document exactly as it was when it was deleted (every
\* attribute, createdAt included).
Recreated(w) ==
    /\ w.pc = "done"
    /\ w.op \in DeleteOps
    /\ w.calls = <<"findById", "findByIdAndDelete", "auth.deleteUser", "findOne", "create">>
    /\ w.error = FailedToDelete

C4_DeleteRollbackRoundTrip ==
    [][\A p \in Procs :
          (EndsNow(p) /\ Recreated(wf'[p]))
          => wf[p].removed \in db'[KindOf(wf[p].op)]]_vars

\* C5: a create workflow started with an email that a document of the same
\* kind already holds ends with the service's Conflict error (409).
C5_DuplicateIsConflict ==
    \A p \in Procs :
        (wf[p].pc = "done" /\ wf[p].op \in CreateOps /\ wf[p].dup)
        => wf[p].error = ConflictError

\* C6: no step of a create workflow started with an email already in use
\* changes the account store or the identity provider, and such a workflow
\* never calls the identity provider's createUser.
C6_NoSideEffectOnDuplicate ==
    [][\A p \in Procs :
          (wf'[p] # wf[p] /\ wf'[p].dup)
          => /\ db' = db
             /\ idp' = idp
             /\ "auth.createUser" \notin Range(wf'[p].calls)]_vars

C6_Witness ==
    \E p \in Procs :
        /\ wf[p].pc = "done"
        /\ wf[p].op \in CreateOps
        /\ wf[p].dup
        /\ Cardinality(idp) = 1
        /\ Cardinality(db.User \cup db.Owner) = 1

\* C7: the User delete workflow started with an id that no User document
\* has ends with the service's NotFound error (404).
C7_MissingIsNotFound ==
    \A p \in Procs :
        (wf[p].pc = "done" /\ wf[p].op = "deleteUser" /\ wf[p].missing)
        => wf[p].error = NotFoundError

\* C8: a delete workflow whose initial fetch finds no document makes no
\* further call (no local delete, no identity deletion, no recreate) and no
\* step of it changes the account store or the identity provider.
C8_MissingDeleteHasNoEffect ==
    [][\A p \in Procs :
          (wf'[p] # wf[p] /\ wf'[p].missing)
          => /\ db' = db
             /\ idp' = idp
             /\ wf'[p].calls = <<"findById">>]_vars

C8_Witness ==
    \E p \in Procs :
        /\ wf[p].pc = "done"
        /\ wf[p].op \in DeleteOps
        /\ wf[p].missing
        /\ db[KindOf(wf[p].op)] # {}
        /\ idp # {}

\* C9: createEmployeeWithFirebase, once the local document was created,
\* ends every failure with the one generic "Failed to create user" error.
C9_UserCreateFailureIsGeneric ==
    \A p \in Procs :
        (wf[p].op = "createEmployeeWithFirebase" /\ IdentityCreateFailed(wf[p]))
        => wf[p].error = FailedToCreate

\* C10: createOwnerWithFirebase, when the local document was created and
\* the identity creation failed, ends with the generic "Failed to create
\* user" error and no other (in particular not NotFound).
C10_OwnerCreateFailureIsGeneric ==
    \A p \in Procs :
        (wf[p].op = "createOwnerWithFirebase" /\ IdentityCreateFailed(wf[p]))
        => wf[p].error = FailedToCreate

\* a finished delete workflow whose local delete succeeded (the identity
\* deletion is only reached then) and whose identity deletion failed
IdentityDeleteFailed(w) ==
    /\ w.pc = "done"
    /\ w.op \in DeleteOps
    /\ "auth.deleteUser" \in Range(w.calls)
    /\ w.error # Null

Returns(p) == EndsNow(p) /\ wf'[p].op \in CreateOps /\ wf'[p].result # Null

OnSuccessPath(w) ==
    /\ w.op \in DeleteOps
    /\ \/ w.pc \in {"delete", "firebase"}
       \/ w.pc = "done" /\ w.error = Null

\* C13: when a delete workflow returns normally for an id, no document of
\* that id is in the account store and no identity of that uid is in the
\* identity provider, and no step of the workflow up to and including its
\* return changes any other document or any other identity.
C13_DeleteSuccess ==
    [][\A p \in Procs :
          (wf'[p] # wf[p] /\ OnSuccessPath(wf'[p]))
          => LET X == wf'[p].userId
             IN  /\ \A kind \in Kinds :
                       {d \in db'[kind] : d._id # X} = {d \in db[kind] : d._id # X}
                 /\ {i \in idp' : i.uid # ToString(X)} = {i \in idp : i.uid # ToString(X)}
                 /\ wf'[p].pc = "done" =>
                       /\ \A kind \in Kinds : findById(db'[kind], X) = {}
                       /\ \A i \in idp' : i.uid # ToString(X)]_vars

\* a delete workflow has returned normally, another account still there
C13_Witness ==
    \E p \in Procs :
        /\ wf[p].pc = "done"
        /\ wf[p].op \in DeleteOps
        /\ wf[p].error = Null
        /\ wf[p].calls = <<"findById", "findByIdAndDelete", "auth.deleteUser">>
        /\ db.User \cup db.Owner # {}
        /\ idp # {}

\* the handler of DELETE /owner/:id sends its 204 at this step: the step of
\* the request's first call
Sends204(p) ==
    /\ wf'[p] # wf[p]
    /\ wf'[p].op = "deleteOwner"
    /\ wf'[p].calls = <<"findById">>
    /\ wf'[p].status = NO_CONTENT

\* C14: when the handler of DELETE /owner/:id sends 204 for an id that an
\* Owner document has, that document is no longer in the account store.
C14_OwnerDeleteRespondsAfterDeletion ==
    [][\A p \in Procs :
          (Sends204(p) /\ ~wf'[p].missing)
          => findById(db'.Owner, wf'[p].userId) = {}]_vars

\* C15: a finished DELETE /owner/:id has answered 404 when no Owner
\* document had the id, 500 when the delete workflow failed otherwise, and
\* a 204 was sent only for a delete workflow that returned normally.
C15_OwnerDeleteReportsFailures ==
    \A p \in Procs :
        wf[p].op = "deleteOwner" =>
            /\ (wf[p].pc = "done" /\ wf[p].missing) => wf[p].status = NOT_FOUND
            /\ (wf[p].pc = "done" /\ ~wf[p].missing /\ wf[p].error # Null)
                  => wf[p].status = INTERNAL_SERVER_ERROR
            /\ wf[p].status = NO_CONTENT => (wf[p].pc = "done" /\ wf[p].error = Null)

\* C16: in every reachable state no two User documents have the same email
\* and no two Owner documents have the same email.
C16_EmailUnique ==
    \A kind \in Kinds :
        \A d1, d2 \in db[kind] : d1.email = d2.email => d1 = d2

\* a create workflow is past its findOne check and about to insert, and a
\* document stored since holds its email: the unique index decides
C16_Witness ==
    \E p \in Procs :
        /\ wf[p].pc = "create"
        /\ ~wf[p].dup
        /\ \E d \in db[KindOf(wf[p].op)] : d.email = wf[p].data.email

\* a create workflow that passed its findOne check loses at this step: a
\* workflow running at the same time has stored its email since
LosesNow(p) ==
    /\ wf[p].pc = "create"
    /\ wf'[p] # wf[p]
    /\ \E d \in db[KindOf(wf[p].op)] : d.email = wf[p].data.email

\* C17: of two create workflows of one kind running at the same time with
\* the same email, the one whose insert comes second stores nothing (one
\* document of that email stays), ends with the Conflict error, and makes
\* no call to the identity provider.
C17_ConcurrentSameEmail ==
    [][\A p \in Procs :
          LosesNow(p)
          => /\ Cardinality(findOne(db'[KindOf(wf[p].op)], wf[p].data.email)) = 1
             /\ wf'[p].pc = "done"
             /\ wf'[p].error = ConflictError
             /\ "auth.createUser" \notin Range(wf'[p].calls)]_vars

\* the workflow of p makes the call named at this step
Calls(p, name) ==
    /\ Len(wf'[p].calls) = Len(wf[p].calls) + 1
    /\ wf'[p].calls[Len(wf'[p].calls)] = name

C20_FirebaseDeletionFirst ==
    [][\A p \in Procs :
          (wf[p].op \in DeleteOps /\ Calls(p, "findByIdAndDelete"))
          => "auth.deleteUser" \in Range(wf[p].calls)]_vars

\* the calls of a create workflow in the order of the code: the service's
\* findOne and create, the identity creation, the compensating delete
CreateCalls == <<"findOne", "create", "auth.createUser", "findByIdAndDelete">>

\* the calls of a delete workflow: the fetch, the local delete, the
\* identity deletion, then the compensating recreate (findOne and create
\* of the service's create)
DeleteCalls ==
    <<"findById", "findByIdAndDelete", "auth.deleteUser", "findOne", "create">>

IsPrefix(s, t) == Len(s) <= Len(t) /\ \A i \in 1..Len(s) : s[i] = t[i]

\* C21: in every state the calls a workflow has made so far are an initial
\* part of the sequence of the code, each step once: no step is made twice
\* and at most one compensating action (one local delete in a create, one
\* recreate in a delete) follows a failure.
C21_NoRetry ==
    \A p \in Procs :
        /\ wf[p].op \in CreateOps => IsPrefix(wf[p].calls, CreateCalls)
        /\ wf[p].op \in DeleteOps => IsPrefix(wf[p].calls, DeleteCalls)

\* a delete workflow whose recreate failed has ended without a second try
C21_Witness ==
    \E p \in Procs :
        /\ wf[p].pc = "done"
        /\ wf[p].calls = DeleteCalls
        /\ wf[p].error = DataInconsistency

NoPassword(r) == r # Null => "password" \notin DOMAIN r

\* C22: in every state no Owner or User document has a password field, no
\* record a workflow fetched, created or returned has one, and a create
\* workflow hands the password of its request to the identity provider's
\* createUser only: the object it hands to the service's create has no
\* password field.
C22_PasswordNeverStored ==
    /\ \A kind \in Kinds : \A d \in db[kind] : NoPassword(d)
    /\ \A p \in Procs :
          /\ NoPassword(wf[p].result)
          /\ NoPassword(wf[p].createdUser)
          /\ NoPassword(wf[p].user)
          /\ NoPassword(wf[p].deletedUser)
          /\ wf[p].data # Null =>
                /\ NoPassword(ServiceInput(KindOf(wf[p].op), wf[p].userId, wf[p].data))
                /\ Identity(wf[p]).password = wf[p].data.password

\* a create workflow has returned its record; the identity it created
\* holds the password, the stored document does not
C22_Witness ==
    \E p \in Procs :
        /\ wf[p].pc = "done"
        /\ wf[p].op \in CreateOps
        /\ wf[p].result # Null
        /\ \E d \in db[KindOf(wf[p].op)] : d._id = wf[p].userId /\ NoPassword(d)
        /\ \E i \in idp : i.uid = ToString(wf[p].userId) /\ i.password \in Passwords

\* updateUserRole(id, role) called at time now and again at a later time
Once(id, role) == UserService_updateUserRole(db.User, id, role, clock)
Twice(id, role) == UserService_updateUserRole(Once(id, role).coll, id, role, clock + 1)

\* C23: for every stored User and each of the two roles, updateUserRole
\* called twice in sequence raises no error and leaves the users
\* collection as one call leaves it.
C23_UpdateRoleIdempotent ==
    \A d \in db.User, r \in UserRole :
        /\ Once(d._id, r).error = Null
        /\ Twice(d._id, r).error = Null
        /\ Twice(d._id, r).coll = Once(d._id, r).coll

\* a collection with the update stamps blanked
Unstamped(coll) == {[d EXCEPT !.updatedAt = 0] : d \in coll}

\* C23 (amended): for every stored User and each of the two roles,
\* updateUserRole called twice in sequence raises no error and leaves the
\* users collection as one call leaves it in everything but the updatedAt
\* stamp of that user, which is that of the second call.
C23_UpdateRoleIdempotentAmended ==
    \A d \in db.User, r \in UserRole :
        /\ Once(d._id, r).error = Null
        /\ Twice(d._id, r).error = Null
        /\ Unstamped(Twice(d._id, r).coll) = Unstamped(Once(d._id, r).coll)
        /\ {x \in Twice(d._id, r).coll : x._id # d._id}
             = {x \in Once(d._id, r).coll : x._id # d._id}
        /\ Twice(d._id, r).user.updatedAt = clock + 1

\* two role updates in a row have acted on the user of Init
C23_Witness ==
    /\ Quiescent
    /\ requests = 2
    /\ \E d \in db.User : d._id = 2 /\ d.createdAt = 1 /\ d.updatedAt = 3

\* C24: updateUserRole(id, r) on the id of a stored User sets the stored
\* role to r, returns the document as stored after the update and leaves
\* the other documents alone; a second update to r2 leaves role r2 (the
\* last update wins); on an id no User has it fails with NotFound and the
\* collection is unchanged.
C24_UpdateRoleResult ==
    \A id \in 1..nextId, r \in UserRole :
        LET u == UserService_updateUserRole(db.User, id, r, clock)
        IN  IF findById(db.User, id) # {}
            THEN /\ u.error = Null
                 /\ u.user._id = id
                 /\ u.user.role = r
                 /\ findById(u.coll, id) = {u.user}
                 /\ {x \in u.coll : x._id # id} = {x \in db.User : x._id # id}
                 /\ \A r2 \in UserRole :
                       LET v == UserService_updateUserRole(u.coll, id, r2, clock + 1)
                       IN  v.error = Null /\ \A x \in findById(v.coll, id) : x.role = r2
            ELSE /\ u.error = NotFoundError
                 /\ u.coll = db.User

\* a role update has made the employee of Init a manager
C24_Witness ==
    \E d \in db.User :
        /\ d._id = 2
        /\ d.role = "MANAGER"
        /\ d.updatedAt > d.createdAt

\* C25: in every state every User document has role MANAGER or EMPLOYEE
\* (never OWNER) and every Owner document has role OWNER, the documents a
\* delete rollback recreated included.
C25_RoleDomain ==
    /\ \A d \in db.User : d.role \in {"MANAGER", "EMPLOYEE"}
    /\ \A d \in db.Owner : d.role = "OWNER"

\* a delete rollback has recreated a document (stamped anew) while a user
\* and an owner are stored
C25_Witness ==
    /\ \E p \in Procs : Recreated(wf[p])
    /\ \E d \in db.User \cup db.Owner : d.createdAt >= 2
    /\ db.User # {}
    /\ db.Owner # {}

\* every stored User's ownerId is the id of a stored Owner
OwnersExist(users, owners) == \A d \in users : \E o \in owners : o._id = d.ownerId

\* C26: a User create whose ownerId is the id of no Owner document stores
\* nothing, and no step takes a store in which every User's ownerId is the
\* id of a stored Owner to one in which some User's is not.
C26_UsersReferenceOwners ==
    [][/\ \A p \in Procs :
            (wf[p].op = "createEmployeeWithFirebase" /\ Calls(p, "create")
               /\ \A o \in db.Owner : o._id # wf[p].data.ownerId)
            => db' = db
       /\ OwnersExist(db.User, db.Owner) => OwnersExist(db'.User, db'.Owner)]_vars

C29_ServiceCreateContract ==
    [][/\ \A kind \in Kinds, e \in Emails :
             ExistingCheck(db[kind], e) = ConflictError <=> \E d \in db[kind] : d.email = e
       /\ \A p \in Procs :
             (wf'[p].op \in CreateOps /\ Calls(p, "findOne") /\ wf'[p].dup)
             => wf'[p].pc = "done" /\ db' = db
       /\ \A p \in Procs :
             LET w == wf[p]
                 kind == KindOf(w.op)
                 doc == NewDocument(kind, ServiceInput(kind, w.userId, w.data), clock)
             IN  (w.op \in CreateOps /\ Calls(p, "create")
                    /\ (wf'[p].pc = "firebase" \/ DuplicateKey(db[kind], doc)))
                 => /\ db'[kind] = db[kind] \cup {doc}
                    /\ doc \notin db[kind]
                    /\ wf'[p].createdUser = doc]_vars

\* C30: no step of a create workflow, failing or not, changes a document
\* or an identity other than those of the id the workflow generated; the
\* compensating delete is called only when the workflow's own local create
\* has succeeded, and it removes no document of another id.
C30_FailedCreateHarmless ==
    [][\A p \in Procs :
          (wf'[p] # wf[p] /\ wf'[p].op \in CreateOps)
          => LET X == wf'[p].userId
             IN  /\ \A kind \in Kinds :
                       {d \in db'[kind] : d._id # X} = {d \in db[kind] : d._id # X}
                 /\ {i \in idp' : i.uid # ToString(X)} = {i \in idp : i.uid # ToString(X)}
                 /\ Calls(p, "findByIdAndDelete") =>
                       /\ wf[p].createdUser # Null
                       /\ wf[p].createdUser._id = X
                       /\ \A kind \in Kinds : \A d \in db[kind] \ db'[kind] : d._id = X]_vars

\* a create workflow has failed after its compensation, the accounts of
\* Init and their identities as they were
C30_Witness ==
    \E p \in Procs :
        /\ wf[p].pc = "done"
        /\ wf[p].op \in CreateOps
        /\ wf[p].error # Null
        /\ wf[p].calls = CreateCalls
        /\ db.User = {SeedUser}
        /\ db.Owner = {SeedOwner}
        /\ idp = {IdentityOf(SeedUser), IdentityOf(SeedOwner)}

\* C31: a delete workflow starts its compensating recreate only after its
\* own local delete has removed the document (deletedUser is set); when
\* the document it fetched is gone at its local delete, that call is its
\* last: the workflow ends there with an error, having called neither the
\* identity provider nor the recreate, the store and the directory as they
\* were.
C31_RecreateOnlyAfterOwnDelete ==
    [][\A p \in Procs :
          /\ (wf[p].op \in DeleteOps /\ Calls(p, "findOne"))
             => /\ wf[p].deletedUser # Null
                /\ wf[p].removed # Null
                /\ wf[p].removed._id = wf[p].userId
                /\ "findByIdAndDelete" \in Range(wf[p].calls)
          /\ (wf[p].op \in DeleteOps /\ Calls(p, "findByIdAndDelete")
                /\ findById(db[KindOf(wf[p].op)], wf[p].userId) = {})
             => /\ wf'[p].pc = "done"
                /\ wf'[p].error # Null
                /\ wf'[p].calls = <<"findById", "findByIdAndDelete">>
                /\ db' = db
                /\ idp' = idp]_vars

\* two delete workflows fetched the same document; one has removed it and
\* returned, the other found it gone at its local delete and ended there
C31_Witness ==
    \E p, q \in Procs :
        /\ p # q
        /\ wf[p].op \in DeleteOps /\ wf[q].op = wf[p].op
        /\ wf[p].userId = wf[q].userId
        /\ wf[p].pc = "done" /\ wf[p].error = Null
        /\ wf[q].pc = "done" /\ ~wf[q].missing
        /\ wf[q].calls = <<"findById", "findByIdAndDelete">>
        /\ wf[q].error = FailedToDelete

\* C32: a role update that succeeded is not lost by a delete workflow that
\* is rolled back: when deleteUser ends by a successful recreate, the
\* document it stores has the role the document had when it was removed
\* (the role the last successful update, if any, had set).
C32_RoleUpdateSurvivesRollback ==
    [][\A p \in Procs :
          (EndsNow(p) /\ Recreated(wf'[p]) /\ wf[p].op = "deleteUser")
          => \A d \in findById(db'.User, wf[p].userId) :
                d.role = wf[p].removed.role]_vars

\* C33: a delete workflow whose identity deletion failed and whose
\* compensation met no store fault ends by a successful recreate (the
\* ordinary "Failed to delete user" error, the document of that id stored
\* again), whatever other workflows do at the same time; it never leaves
\* the identity of that id without a document.
C33_RecreateNotDefeated ==
    [][\A p \in Procs :
          (EndsNow(p) /\ IdentityDeleteFailed(wf'[p]) /\ ~wf'[p].rollbackFault)
          => /\ wf'[p].error = FailedToDelete
             /\ findById(db'[KindOf(wf[p].op)], wf[p].userId) # {}
             /\ HasIdentity(wf[p].userId)' => HasRecord(wf[p].userId)']_vars

\* two delete workflows of one kind, both having fetched the document of
\* the same id, are the only requests so far, and both have ended
BothDeletesEnded(p, q) ==
    /\ p # q
    /\ requests = 2
    /\ wf[p].pc = "done" /\ wf[q].pc = "done"
    /\ wf[p].op \in DeleteOps /\ wf[q].op = wf[p].op
    /\ wf[p].userId = wf[q].userId
    /\ ~wf[p].missing /\ ~wf[q].missing

\* C34: of two delete workflows running at the same time on the id of a
\* stored account, at most one returns normally (the identity deletion,
\* the last step of a normal return, succeeds at most once for that uid: no
\* step removes the identity when the other workflow has returned
\* normally), and when both have ended and no store fault hit a
\* compensation, the document of that id is stored exactly when the
\* identity of that uid is.
C34_ConcurrentDeletes ==
    [][\A p, q \in Procs :
          /\ (EndsNow(p) /\ BothDeletesEnded(p, q)')
             => /\ ~(wf'[p].error = Null /\ wf'[q].error = Null)
                /\ ~compFault' =>
                      (findById(db'[KindOf(wf[p].op)], wf[p].userId) # {}
                         <=> HasIdentity(wf[p].userId)')
          /\ (p # q /\ wf[p].op \in DeleteOps /\ Calls(p, "auth.deleteUser")
                /\ idp' # idp
                /\ wf[q].op \in DeleteOps /\ wf[q].userId = wf[p].userId
                /\ wf[q].pc = "done" /\ requests = 2)
             => wf[q].error # Null]_vars

\* both have fetched the account of Init; one has returned normally, the
\* other has failed, and neither the document nor the identity is left
C34_Witness ==
    \E p, q \in Procs :
        /\ BothDeletesEnded(p, q)
        /\ wf[p].error = Null
        /\ wf[q].error = FailedToDelete
        /\ ~compFault
        /\ ~HasRecord(wf[p].userId)
        /\ ~HasIdentity(wf[p].userId)


\* the errors a workflow throws
Errors ==
    {ConflictError, NotFoundError, FailedToCreate, FailedToDelete,
     DataInconsistency, StoreError}

\* a workflow has ended in one way: it has returned (a create: the record
\* it created), or it has thrown one error and returned nothing
Outcome(w) ==
    /\ w.pc = "done"
    /\ \/ w.error = Null /\ (w.op \in CreateOps <=> w.result # Null)
       \/ w.error \in Errors /\ w.result = Null

\* C35: when every call to the store and to the identity provider returns,
\* every create or delete workflow that has started ends, and it ends in
\* exactly one way: it returns, or it throws one error.
C35_Terminates ==
    \A p \in Procs : (wf[p].pc \notin {"idle", "done"}) ~> Outcome(wf[p])

\* a create workflow has returned and a delete workflow has thrown after
\* its longest path, the failed recreate
C35_Witness ==
    \E p, q \in Procs :
        /\ Outcome(wf[p]) /\ wf[p].op \in CreateOps /\ wf[p].error = Null
        /\ Outcome(wf[q]) /\ wf[q].op \in DeleteOps /\ wf[q].calls = DeleteCalls
        /\ wf[q].error \in {FailedToDelete, DataInconsistency}

\* C36: no step of the Owner delete workflow, whether the workflow returns
\* or fails, changes the users collection (the users whose ownerId is the
\* deleted owner's id included), and an identity such a step removes or
\* adds has the owner's id as uid, which is the id of no User document.
C36_OwnerDeleteNoCascade ==
    [][\A p \in Procs :
          (wf'[p] # wf[p] /\ wf'[p].op = "deleteOwner")
          => /\ db'.User = db.User
             /\ \A i \in (idp \ idp') \cup (idp' \ idp) :
                   /\ i.uid = ToString(wf'[p].userId)
                   /\ findById(db.User, wf'[p].userId) = {}]_vars

\* deleteOwner has returned for the owner of Init: the owner and its
\* identity are gone, its employee and the employee's identity are there
C36_Witness ==
    \E p \in Procs :
        /\ wf[p].pc = "done"
        /\ wf[p].op = "deleteOwner"
        /\ wf[p].error = Null
        /\ db.Owner = {}
        /\ ~HasIdentity(wf[p].userId)
        /\ \E d \in db.User : d.ownerId = wf[p].userId /\ HasIdentity(d._id)

\* the step of a role update: a request is accepted and no workflow starts
\* or moves (PATCH /user/:id/role is the one request served in one step)
UpdatesRole == requests' = requests + 1 /\ wf' = wf

\* a collection with the roles blanked
RoleBlind(coll) == {[d EXCEPT !.role = "EMPLOYEE"] : d \in coll}

\* C37: a role update changes nothing but the role of one User document:
\* the other attributes of that document, the other User documents, the
\* owners collection and the identity provider are as they were, and no
\* workflow makes a call (none to the identity provider).
C37_UpdateRoleTouchesRoleOnly ==
    [][UpdatesRole
       => /\ RoleBlind(db'.User) = RoleBlind(db.User)
          /\ Cardinality(db'.User \ db.User) <= 1
          /\ db'.Owner = db.Owner
          /\ idp' = idp]_vars

\* C37 (amended): a role update changes nothing but the role and the
\* updatedAt stamp of one User document, the one of the id given: its
\* other attributes (createdAt included), the other User documents, the
\* owners collection and the identity provider are as they were, and no
\* workflow makes a call (none to the identity provider).
C37_UpdateRoleTouchesRoleOnlyAmended ==
    [][UpdatesRole
       => /\ Unstamped(RoleBlind(db'.User)) = Unstamped(RoleBlind(db.User))
          /\ Cardinality(db'.User \ db.User) <= 1
          /\ \A e \in db'.User \ db.User :
                /\ e.updatedAt = clock
                /\ \E d \in db.User \ db'.User :
                      d._id = e._id /\ [d EXCEPT !.role = e.role, !.updatedAt = clock] = e
          /\ db'.Owner = db.Owner
          /\ idp' = idp]_vars

\* a role update has made the employee of Init a manager next to a user
\* stored since; the owner and the identities of Init are as they were
C37_Witness ==
    /\ [SeedUser EXCEPT !.role = "MANAGER", !.updatedAt = 3] \in db.User
    /\ Cardinality(db.User) = 2
    /\ db.Owner = {SeedOwner}
    /\ idp = {IdentityOf(SeedUser), IdentityOf(SeedOwner)}
====
